---- MODULE Spec2Model ----
(***************************************************************************)
(* Reactyl thermochemistry extractors.                                     *)
(*                                                                         *)
(*   src/scripts/enthalpy_md_to_json.py          markdown pipeline         *)
(*   src/Reactyl/scripts/parse_thermo_pdf_to_json.py   PDF pipeline        *)
(*                                                                         *)
(* Text is a sequence of one-character strings, so that tokenizing,        *)
(* trimming, lower-casing, pattern matching and numeric parsing are        *)
(* computed character by character as the Python code computes them.       *)
(*                                                                         *)
(* Python values are tagged records:                                       *)
(*   None          [t |-> "none"]                                          *)
(*   str           [t |-> "str",   s |-> <<chars>>]    ("" is Str(<<>>))   *)
(*   float         [t |-> "float", m |-> M, e |-> E]   value M * 10^(-E)   *)
(*   int           [t |-> "int",   i |-> I]                                *)
(***************************************************************************)
EXTENDS Integers, Sequences, FiniteSets, TLC

VARIABLES
  pc,        \* position of the running function
  md,        \* locals of parse_record (markdown pipeline)
  records,   \* the list parse_file appends sanitized records to
  rt,        \* locals of _rows_to_records
  pdf,       \* locals of parse_pdf_to_json and the document it reads
  scr        \* the text scrape of one page (parse_pdf_to_json lines 170-194)

vars == <<pc, md, records, rt, pdf, scr>>

\* the value of the locals of a function that is not running
Idle == [idle |-> TRUE]

(***************************************************************************)
(* Python values                                                           *)
(***************************************************************************)
None == [t |-> "none"]
Str(s) == [t |-> "str", s |-> s]
Flt(m, e) == [t |-> "float", m |-> m, e |-> e]
IntV(i) == [t |-> "int", i |-> i]
EmptyStr == Str(<<>>)

(***************************************************************************)
(* Characters                                                              *)
(***************************************************************************)
DigitSeq == <<"0", "1", "2", "3", "4", "5", "6", "7", "8", "9">>
LowerSeq == <<"a", "b", "c", "d", "e", "f", "g", "h", "i", "j", "k", "l", "m",
              "n", "o", "p", "q", "r", "s", "t", "u", "v", "w", "x", "y", "z">>
UpperSeq == <<"A", "B", "C", "D", "E", "F", "G", "H", "I", "J", "K", "L", "M",
              "N", "O", "P", "Q", "R", "S", "T", "U", "V", "W", "X", "Y", "Z">>
Range(f) == {f[i] : i \in DOMAIN f}
IsDigit(c) == c \in Range(DigitSeq)
IsLetter(c) == c \in Range(LowerSeq) \cup Range(UpperSeq)
IsSpace(c) == c \in {" ", "\t", "\n", "\r"}
DigitVal(c) == (CHOOSE i \in DOMAIN DigitSeq : DigitSeq[i] = c) - 1
LowerChar(c) ==
  IF c \in Range(UpperSeq)
  THEN LowerSeq[CHOOSE i \in DOMAIN UpperSeq : UpperSeq[i] = c]
  ELSE c
Glyph == "±"

(***************************************************************************)
(* str methods                                                             *)
(***************************************************************************)
\* str.lower()
Lower(s) == [i \in DOMAIN s |-> LowerChar(s[i])]

RECURSIVE LStrip(_)
LStrip(s) == IF s # <<>> /\ IsSpace(s[1]) THEN LStrip(Tail(s)) ELSE s
RECURSIVE RStrip(_)
RStrip(s) ==
  IF s # <<>> /\ IsSpace(s[Len(s)]) THEN RStrip(SubSeq(s, 1, Len(s) - 1)) ELSE s
\* str.strip()
Strip(s) == RStrip(LStrip(s))

\* c in s
HasChar(s, c) == \E i \in DOMAIN s : s[i] = c
\* s.find(c) + 1, 0 when absent
FirstIndex(s, c) ==
  IF HasChar(s, c)
  THEN CHOOSE i \in DOMAIN s : s[i] = c /\ \A j \in 1..(i - 1) : s[j] # c
  ELSE 0
\* sub in s
Contains(s, sub) ==
  \E i \in 0..(Len(s) - Len(sub)) : SubSeq(s, i + 1, i + Len(sub)) = sub
StartsWith(s, pre) == Len(s) >= Len(pre) /\ SubSeq(s, 1, Len(pre)) = pre
AllDigits(s) == \A i \in DOMAIN s : IsDigit(s[i])

RECURSIVE DigitsToInt(_)
DigitsToInt(s) ==
  IF s = <<>> THEN 0
  ELSE 10 * DigitsToInt(SubSeq(s, 1, Len(s) - 1)) + DigitVal(s[Len(s)])

RECURSIVE Pow10(_)
Pow10(n) == IF n <= 0 THEN 1 ELSE 10 * Pow10(n - 1)

(***************************************************************************)
(* float(str): optional sign, decimal digits with at most one point and at *)
(* least one digit, optional exponent.  The value M * 10^(-E) is kept in   *)
(* lowest terms, so "0.50" and "0.5" and "5e-1" are the same float.  The   *)
(* words inf, nan, infinity and digit-group underscores are not formed by  *)
(* the vocabularies below.                                                 *)
(***************************************************************************)
RECURSIVE NormFloat(_, _)
NormFloat(m, e) ==
  IF m = 0 THEN Flt(0, 0)
  ELSE IF e < 0 THEN Flt(m * Pow10(0 - e), 0)
  ELSE IF e > 0 /\ m % 10 = 0 THEN NormFloat(m \div 10, e - 1)
  ELSE Flt(m, e)

SignLen(s) == IF s # <<>> /\ s[1] \in {"+", "-"} THEN 1 ELSE 0
SignOf(s) == IF s # <<>> /\ s[1] = "-" THEN 0 - 1 ELSE 1
Unsigned(s) == SubSeq(s, SignLen(s) + 1, Len(s))
ExpIndex(s) ==
  IF \E i \in DOMAIN s : s[i] \in {"e", "E"}
  THEN CHOOSE i \in DOMAIN s :
         s[i] \in {"e", "E"} /\ \A j \in 1..(i - 1) : s[j] \notin {"e", "E"}
  ELSE 0
Mantissa(u) == IF ExpIndex(u) = 0 THEN u ELSE SubSeq(u, 1, ExpIndex(u) - 1)
Exponent(u) == IF ExpIndex(u) = 0 THEN <<>> ELSE SubSeq(u, ExpIndex(u) + 1, Len(u))
MantissaOk(mt) ==
  /\ \A i \in DOMAIN mt : IsDigit(mt[i]) \/ mt[i] = "."
  /\ Cardinality({i \in DOMAIN mt : mt[i] = "."}) <= 1
  /\ \E i \in DOMAIN mt : IsDigit(mt[i])
ExponentOk(u) ==
  ExpIndex(u) = 0
  \/ (Unsigned(Exponent(u)) # <<>> /\ AllDigits(Unsigned(Exponent(u))))
FracLen(mt) == IF HasChar(mt, ".") THEN Len(mt) - FirstIndex(mt, ".") ELSE 0
ExpVal(u) ==
  IF ExpIndex(u) = 0 THEN 0
  ELSE SignOf(Exponent(u)) * DigitsToInt(Unsigned(Exponent(u)))

IsFloatLiteral(s) ==
  LET u == Unsigned(Strip(s))
  IN  MantissaOk(Mantissa(u)) /\ ExponentOk(u)
FloatOf(s) ==
  LET t == Strip(s)
      u == Unsigned(t)
  IN  NormFloat(SignOf(t) * DigitsToInt(SelectSeq(Mantissa(u), IsDigit)),
                FracLen(Mantissa(u)) - ExpVal(u))

\* int(str): optional sign and decimal digits, surrounding whitespace ignored
IsIntLiteral(s) ==
  LET u == Unsigned(Strip(s)) IN u # <<>> /\ AllDigits(u)
IntOf(s) == SignOf(Strip(s)) * DigitsToInt(Unsigned(Strip(s)))

(***************************************************************************)
(* enthalpy_md_to_json.py                                                  *)
(***************************************************************************)
\* _safe_float: float(value), None on any exception
MdSafeFloat(value) == IF IsFloatLiteral(value) THEN FloatOf(value) ELSE None

\* re.match(r"^\d{2,7}-\d{2}-\d$", token)
MatchesCas(token) ==
  LET d1 == FirstIndex(token, "-") - 1
  IN  /\ d1 >= 2 /\ d1 <= 7
      /\ Len(token) = d1 + 5
      /\ AllDigits(SubSeq(token, 1, d1))
      /\ token[d1 + 1] = "-"
      /\ AllDigits(SubSeq(token, d1 + 2, d1 + 3))
      /\ token[d1 + 4] = "-"
      /\ IsDigit(token[d1 + 5])

\* s or None
OrNone(s) == IF s = <<>> THEN None ELSE Str(s)

\* _split_cas_and_relative: the pair (cas, relative)
SplitCasAndRelative(token0) ==
  LET token == Strip(token0)
      star == FirstIndex(token, "*")
      casPart == SubSeq(token, 1, star - 1)
      relPart == SubSeq(token, star + 1, Len(token))
  IN  IF star > 0
      THEN IF IsIntLiteral(relPart)
           THEN <<OrNone(Strip(casPart)), IntV(IntOf(relPart))>>
           ELSE <<OrNone(Strip(casPart)), None>>
      ELSE IF MatchesCas(token) THEN <<Str(token), None>>
      ELSE <<None, None>>

\* re.split(r"\s+", text.strip()) without its empty strings
RECURSIVE SplitWs(_, _, _)
SplitWs(s, cur, acc) ==
  IF s = <<>> THEN (IF cur = <<>> THEN acc ELSE Append(acc, cur))
  ELSE IF IsSpace(s[1])
       THEN SplitWs(Tail(s), <<>>, IF cur = <<>> THEN acc ELSE Append(acc, cur))
       ELSE SplitWs(Tail(s), Append(cur, s[1]), acc)

\* re.split(r"(±)", t) without its empty strings
RECURSIVE SplitGlyph(_, _, _)
SplitGlyph(t, cur, acc) ==
  IF t = <<>> THEN (IF cur = <<>> THEN acc ELSE Append(acc, cur))
  ELSE IF t[1] = Glyph
       THEN SplitGlyph(Tail(t), <<>>,
                       Append(IF cur = <<>> THEN acc ELSE Append(acc, cur), <<Glyph>>))
       ELSE SplitGlyph(Tail(t), Append(cur, t[1]), acc)

RECURSIVE TokenizeRaw(_)
TokenizeRaw(raw) ==
  IF raw = <<>> THEN <<>>
  ELSE (IF raw[1] # <<Glyph>> /\ HasChar(raw[1], Glyph)
        THEN SplitGlyph(raw[1], <<>>, <<>>)
        ELSE <<raw[1]>>) \o TokenizeRaw(Tail(raw))

\* _tokenize_loose
TokenizeLoose(text) == TokenizeRaw(SplitWs(Strip(text), <<>>, <<>>))

\* m.group(1) of re.search(r"±\s*([-+]?\d+(?:\.\d+)?)", tok), <<>> when no match
RECURSIVE DigitRun(_)
DigitRun(s) == IF s # <<>> /\ IsDigit(s[1]) THEN 1 + DigitRun(Tail(s)) ELSE 0
NumberAt(s) ==
  LET sg == SignLen(s)
      n1 == DigitRun(SubSeq(s, sg + 1, Len(s)))
      rest == SubSeq(s, sg + n1 + 1, Len(s))
      n2 == IF rest # <<>> /\ rest[1] = "." THEN DigitRun(Tail(rest)) ELSE 0
  IN  IF n1 = 0 THEN <<>>
      ELSE SubSeq(s, 1, sg + n1 + (IF n2 > 0 THEN n2 + 1 ELSE 0))
GluedNumber(tok) ==
  LET hits == {i \in DOMAIN tok :
                 tok[i] = Glyph
                 /\ NumberAt(LStrip(SubSeq(tok, i + 1, Len(tok)))) # <<>>}
  IN  IF hits = {} THEN <<>>
      ELSE LET i == CHOOSE i \in hits : \A j \in hits : i <= j
           IN  NumberAt(LStrip(SubSeq(tok, i + 1, Len(tok))))

ExactWord == <<"e", "x", "a", "c", "t">>
NumericWord == <<"n", "u", "m", "e", "r", "i", "c">>
MolSuffix == <<"/", "m", "o", "l">>

\* re.match(r"^[A-Za-z]+/mol$", tok)
MatchesUnits(tok) ==
  LET n == Len(tok) - Len(MolSuffix)
  IN  /\ n >= 1
      /\ SubSeq(tok, n + 1, Len(tok)) = MolSuffix
      /\ \A i \in 1..n : IsLetter(tok[i])

\* tokens[idx], Python's 0-based index
Tok(f) == f.tokens[f.idx + 1]
\* tokens[-1]
LastTok(f) == f.tokens[Len(f.tokens)]
HasTok(f) == f.idx < Len(f.tokens)

\* The locals of parse_record before its first statement.  hist is the
\* cursor after every slot, in slot order (a history of idx).
MdFrame(l1, l2) ==
  [line1 |-> l1, line2 |-> l2, species_name |-> None, tokens |-> <<>>,
   idx |-> 0, structure |-> None, dH0 |-> None, dH298 |-> None,
   uncertainty_kind |-> None, uncertainty_value |-> None, units |-> None,
   molecular_mass |-> None, molecular_mass_unc |-> None,
   cas |-> None, relative |-> None, rec |-> None, hist |-> <<>>]

Mark(f) == [f EXCEPT !.hist = Append(@, f.idx)]

\* lines 50-51
TokenizeStep(f) ==
  [f EXCEPT !.species_name = OrNone(Strip(f.line1)),
            !.tokens = TokenizeLoose(f.line2)]

\* lines 55-62
StructureStep(f) ==
  IF MdSafeFloat(f.tokens[1]) = None
  THEN [f EXCEPT !.structure = Str(f.tokens[1]), !.idx = 1]
  ELSE f

\* lines 67-68
DH0Step(f) ==
  IF HasTok(f) THEN [f EXCEPT !.dH0 = MdSafeFloat(Tok(f)), !.idx = @ + 1] ELSE f

\* lines 69-70
DH298Step(f) ==
  IF HasTok(f) THEN [f EXCEPT !.dH298 = MdSafeFloat(Tok(f)), !.idx = @ + 1] ELSE f

\* lines 84-91: tok == "±"
GlyphValue(f) ==
  LET g == [f EXCEPT !.idx = @ + 1]
  IN  IF HasTok(g) /\ MdSafeFloat(Tok(g)) # None
      THEN [g EXCEPT !.uncertainty_kind = Str(NumericWord),
                     !.uncertainty_value = MdSafeFloat(Tok(g)),
                     !.idx = @ + 1]
      ELSE g

\* lines 92-97: tok.startswith("±")
GluedValue(f) ==
  LET num == GluedNumber(Tok(f))
  IN  IF num # <<>>
      THEN [f EXCEPT !.uncertainty_kind = Str(NumericWord),
                     !.uncertainty_value = MdSafeFloat(num),
                     !.idx = @ + 1]
      ELSE [f EXCEPT !.idx = @ + 1]

\* lines 77-97
UncertaintyStep(f) ==
  IF ~HasTok(f) THEN f
  ELSE IF Lower(Tok(f)) = ExactWord
       THEN [f EXCEPT !.uncertainty_kind = Str(ExactWord), !.idx = @ + 1]
  ELSE IF Tok(f) = <<Glyph>> THEN GlyphValue(f)
  ELSE IF StartsWith(Tok(f), <<Glyph>>) THEN GluedValue(f)
  ELSE f

\* UnitsStep attempted also after "exact"
UnitsStep_AlsoAfterExact(f) ==
  IF HasTok(f) /\ MatchesUnits(Tok(f))
  THEN [f EXCEPT !.units = Str(Tok(f)), !.idx = @ + 1]
  ELSE f

\* UnitsStep that recognises the units token and leaves the cursor on it
UnitsStep_NoAdvance(f) ==
  IF f.uncertainty_kind # Str(ExactWord) /\ HasTok(f) /\ MatchesUnits(Tok(f))
  THEN [f EXCEPT !.units = Str(Tok(f))]
  ELSE f

\* lines 100-103
UnitsStep(f) ==
  IF f.uncertainty_kind # Str(ExactWord) /\ HasTok(f) /\ MatchesUnits(Tok(f))
  THEN [f EXCEPT !.units = Str(Tok(f)), !.idx = @ + 1]
  ELSE f

\* lines 111-121
MassUncertainty(f) ==
  IF ~HasTok(f) THEN f
  ELSE IF Tok(f) = <<Glyph>>
       THEN LET g == [f EXCEPT !.idx = @ + 1]
            IN  IF HasTok(g)
                THEN [g EXCEPT !.molecular_mass_unc = MdSafeFloat(Tok(g)),
                               !.idx = @ + 1]
                ELSE g
  ELSE IF StartsWith(Tok(f), <<Glyph>>)
       THEN LET num == GluedNumber(Tok(f))
            IN  IF num # <<>>
                THEN [f EXCEPT !.molecular_mass_unc = MdSafeFloat(num),
                               !.idx = @ + 1]
                ELSE [f EXCEPT !.idx = @ + 1]
  ELSE f

\* lines 106-121
MassStep(f) ==
  IF HasTok(f)
  THEN MassUncertainty([f EXCEPT !.molecular_mass = MdSafeFloat(Tok(f)),
                                 !.idx = @ + 1])
  ELSE f

\* a CAS step that inspects the last token wherever the cursor stands
CasStep_Ungated(f) ==
  IF f.tokens # <<>> /\ HasChar(LastTok(f), "*")
  THEN [f EXCEPT !.cas = SplitCasAndRelative(LastTok(f))[1],
                 !.relative = SplitCasAndRelative(LastTok(f))[2]]
  ELSE f

\* lines 124-129
CasStep(f) ==
  IF HasTok(f) /\ HasChar(LastTok(f), "*")
  THEN [f EXCEPT !.cas = SplitCasAndRelative(LastTok(f))[1],
                 !.relative = SplitCasAndRelative(LastTok(f))[2]]
  ELSE f

\* lines 131-141: the returned dict
MdRecord(f) ==
  [common_name |-> f.species_name,
   structure |-> f.structure,
   enthalpy_of_formation_0K |-> f.dH0,
   enthalpy_of_formation_298K |-> f.dH298,
   uncertainty_value |-> f.uncertainty_value,
   molecular_mass |-> f.molecular_mass,
   molecular_mass_uncertainty |-> f.molecular_mass_unc,
   cas_rn |-> f.cas,
   relative_rank |-> f.relative]

\* parse_file lines 199-201: None becomes ""
Sanitize(rec) == [k \in DOMAIN rec |-> IF rec[k] = None THEN EmptyStr ELSE rec[k]]

(***************************************************************************)
(* Markdown inputs: the field-data text of one group is a single-space     *)
(* join of words (parse_file line 195).                                    *)
(***************************************************************************)
MaxFree == 4

MdWord ==
  [ H2 |-> <<"H", "2">>,
    Zero |-> <<"0", ".", "0">>,
    Neg |-> <<"-", "1", ".", "5">>,
    Two |-> <<"2">>,
    Pm |-> <<Glyph>>,
    Glued |-> <<Glyph, "0", ".", "1">>,
    Exact |-> ExactWord,
    ExactCap |-> <<"E", "x", "a", "c", "t">>,
    Unit |-> <<"k", "J", "/", "m", "o", "l">>,
    CasRel |-> <<"5", "0", "-", "0", "0", "-", "0", "*", "3">>,
    Cas |-> <<"5", "0", "-", "0", "0", "-", "0">>,
    BadCas |-> <<"a", "b", "*", "3">>,
    StarOnly |-> <<"*", "3">>,
    NotCas |-> <<"a", "-", "b">>,
    Name |-> <<"D", "i">> ]

MdVocab == {MdWord.H2, MdWord.Zero, MdWord.Neg, MdWord.Pm, MdWord.Glued, MdWord.Exact, MdWord.Unit,
            MdWord.CasRel, MdWord.Cas, MdWord.BadCas, MdWord.StarOnly, MdWord.NotCas}

\* every word sequence of at most MaxFree words
FreeStreams == UNION {[1..n -> MdVocab] : n \in 0..MaxFree}

\* slot by slot: each slot contributes one of its alternatives
SlotAlternatives ==
  << {<<>>, <<MdWord.H2>>, <<MdWord.Exact>>, <<MdWord.Pm>>},
     {<<MdWord.Zero>>, <<MdWord.Neg>>},
     {<<MdWord.Zero>>, <<MdWord.Neg>>},
     {<<>>, <<MdWord.Pm>>, <<MdWord.Pm, MdWord.Two>>, <<MdWord.Glued>>, <<MdWord.Exact>>, <<MdWord.ExactCap>>},
     {<<>>, <<MdWord.Unit>>},
     {<<MdWord.Two>>, <<MdWord.Two, MdWord.Pm, MdWord.Zero>>},
     {<<>>, <<MdWord.CasRel>>, <<MdWord.Cas>>, <<MdWord.BadCas>>, <<MdWord.NotCas>>} >>
ShapedStreams ==
  {a1 \o a2 \o a3 \o a4 \o a5 \o a6 \o a7 :
     a1 \in SlotAlternatives[1], a2 \in SlotAlternatives[2],
     a3 \in SlotAlternatives[3], a4 \in SlotAlternatives[4],
     a5 \in SlotAlternatives[5], a6 \in SlotAlternatives[6],
     a7 \in SlotAlternatives[7]}

RECURSIVE JoinSp(_)
\* " ".join(words)
JoinSp(words) ==
  IF words = <<>> THEN <<>>
  ELSE IF Len(words) = 1 THEN words[1]
  ELSE words[1] \o <<" ">> \o JoinSp(Tail(words))

(***************************************************************************)
(* parse_record, one slot per step, then parse_file's emission             *)
(***************************************************************************)
MdInit ==
  /\ pc = "md_tokenize"
  /\ \E w \in FreeStreams \cup ShapedStreams : md = MdFrame(MdWord.Name, JoinSp(w))
  /\ records = <<>>
  /\ rt = Idle /\ pdf = Idle /\ scr = Idle

\* lines 50-53
MdTokenize ==
  /\ pc = "md_tokenize"
  /\ md' = TokenizeStep(md)
  /\ pc' = IF TokenizeLoose(md.line2) = <<>> THEN "md_emit" ELSE "md_structure"
  /\ UNCHANGED <<records, rt, pdf, scr>>

\* lines 55-62
MdStructure ==
  /\ pc = "md_structure"
  /\ md' = Mark(StructureStep(md))
  /\ pc' = "md_dH0"
  /\ UNCHANGED <<records, rt, pdf, scr>>

\* lines 67-68
MdDH0 ==
  /\ pc = "md_dH0"
  /\ md' = Mark(DH0Step(md))
  /\ pc' = "md_dH298"
  /\ UNCHANGED <<records, rt, pdf, scr>>

\* lines 69-70
MdDH298 ==
  /\ pc = "md_dH298"
  /\ md' = Mark(DH298Step(md))
  /\ pc' = "md_uncertainty"
  /\ UNCHANGED <<records, rt, pdf, scr>>

\* lines 72-97
MdUncertainty ==
  /\ pc = "md_uncertainty"
  /\ md' = Mark(UncertaintyStep(md))
  /\ pc' = "md_units"
  /\ UNCHANGED <<records, rt, pdf, scr>>

\* lines 99-103
MdUnits ==
  /\ pc = "md_units"
  /\ md' = Mark(UnitsStep(md))
  /\ pc' = "md_mass"
  /\ UNCHANGED <<records, rt, pdf, scr>>

\* lines 105-121
MdMass ==
  /\ pc = "md_mass"
  /\ md' = Mark(MassStep(md))
  /\ pc' = "md_cas"
  /\ UNCHANGED <<records, rt, pdf, scr>>

\* lines 123-129
MdCas ==
  /\ pc = "md_cas"
  /\ md' = Mark(CasStep(md))
  /\ pc' = "md_return"
  /\ UNCHANGED <<records, rt, pdf, scr>>

\* lines 131-141
MdReturn ==
  /\ pc = "md_return"
  /\ md' = [md EXCEPT !.rec = MdRecord(md)]
  /\ pc' = "md_emit"
  /\ UNCHANGED <<records, rt, pdf, scr>>

\* parse_file lines 196-202
MdEmit ==
  /\ pc = "md_emit"
  /\ records' = IF md.rec # None THEN Append(records, Sanitize(md.rec)) ELSE records
  /\ pc' = "done"
  /\ UNCHANGED <<md, rt, pdf, scr>>

MdNext ==
  \/ MdTokenize \/ MdStructure \/ MdDH0 \/ MdDH298 \/ MdUncertainty
  \/ MdUnits \/ MdMass \/ MdCas \/ MdReturn \/ MdEmit

SpecMd == MdInit /\ [][MdNext]_vars

(***************************************************************************)
(* _tokenize_loose, one raw token per step.  md holds its locals: text,    *)
(* raw, the position k of the for loop and tokens.                         *)
(***************************************************************************)
MaxChars == 5

TokChar == [ Space |-> " ", Tab |-> "\t", Pm |-> Glyph, Digit |-> "5", Letter |-> "a" ]

TokTexts == UNION {[1..n -> Range(TokChar)] : n \in 0..MaxChars}

\* line 31: re.split(r"\s+", text.strip()); the split of "" is [""]
RawSplit(text) ==
  IF Strip(text) = <<>> THEN << <<>> >> ELSE SplitWs(Strip(text), <<>>, <<>>)

TokInit ==
  /\ pc = "tok_split"
  /\ \E text \in TokTexts : md = [text |-> text, raw |-> <<>>, k |-> 0, tokens |-> <<>>]
  /\ records = <<>>
  /\ rt = Idle /\ pdf = Idle /\ scr = Idle

\* lines 31-32
TokSplit ==
  /\ pc = "tok_split"
  /\ md' = [md EXCEPT !.raw = RawSplit(md.text)]
  /\ pc' = "tok_loop"
  /\ UNCHANGED <<records, rt, pdf, scr>>

\* lines 34-35: an empty raw token is passed over
TokSkip ==
  /\ pc = "tok_loop"
  /\ md.k < Len(md.raw)
  /\ md.raw[md.k + 1] = <<>>
  /\ md' = [md EXCEPT !.k = @ + 1]
  /\ UNCHANGED <<pc, records, rt, pdf, scr>>

\* a glued token that is appended whole
TokGlued_Unsplit ==
  /\ pc = "tok_loop"
  /\ md.k < Len(md.raw)
  /\ md.raw[md.k + 1] # <<Glyph>> /\ HasChar(md.raw[md.k + 1], Glyph)
  /\ md' = [md EXCEPT !.tokens = Append(@, md.raw[md.k + 1]), !.k = @ + 1]
  /\ UNCHANGED <<pc, records, rt, pdf, scr>>

\* lines 37-43: a token holding the glyph and more is split around it
TokGlued ==
  /\ pc = "tok_loop"
  /\ md.k < Len(md.raw)
  /\ md.raw[md.k + 1] # <<Glyph>> /\ HasChar(md.raw[md.k + 1], Glyph)
  /\ md' = [md EXCEPT !.tokens = @ \o SplitGlyph(md.raw[md.k + 1], <<>>, <<>>),
                      !.k = @ + 1]
  /\ UNCHANGED <<pc, records, rt, pdf, scr>>

\* lines 44-45
TokPlain ==
  /\ pc = "tok_loop"
  /\ md.k < Len(md.raw)
  /\ md.raw[md.k + 1] # <<>>
  /\ md.raw[md.k + 1] = <<Glyph>> \/ ~HasChar(md.raw[md.k + 1], Glyph)
  /\ md' = [md EXCEPT !.tokens = Append(@, md.raw[md.k + 1]), !.k = @ + 1]
  /\ UNCHANGED <<pc, records, rt, pdf, scr>>

\* line 46
TokReturn ==
  /\ pc = "tok_loop"
  /\ md.k >= Len(md.raw)
  /\ pc' = "tok_done"
  /\ UNCHANGED <<md, records, rt, pdf, scr>>

TokNext == TokSplit \/ TokSkip \/ TokGlued \/ TokPlain \/ TokReturn

SpecTok == TokInit /\ [][TokNext]_vars

(***************************************************************************)
(* parse_file.  md holds its locals while it runs: lines, the cursor i,    *)
(* the group being read.  groups is a history of the groups read so far:   *)
(* the line index of the name, the line indices of its data lines and the  *)
(* field-data text handed to parse_record.                                 *)
(***************************************************************************)
MaxLines == 4

\* parse_record as one function
ParseRecord(line1, line2) ==
  LET f == TokenizeStep(MdFrame(line1, line2))
  IN  IF f.tokens = <<>> THEN None
      ELSE MdRecord(CasStep(MassStep(UnitsStep(UncertaintyStep(
             DH298Step(DH0Step(StructureStep(f))))))))

\* any token with a '*' ends the group
MatchesCasRel_AnyStar(t) == HasChar(t, "*")

\* line 188: "*" in t and re.match(r"^\d{2,7}-\d{2}-\d\*\d+$", t)
MatchesCasRel(t) ==
  LET star == FirstIndex(t, "*")
      rel == SubSeq(t, star + 1, Len(t))
  IN  /\ star > 0
      /\ MatchesCas(SubSeq(t, 1, star - 1))
      /\ rel # <<>> /\ AllDigits(rel)

\* line 187-188: has_cas
HasCas(next_line) ==
  \E k \in DOMAIN TokenizeLoose(next_line) : MatchesCasRel(TokenizeLoose(next_line)[k])

FirstName == <<"D", "i", "h", "y", "d", "r", "o", "g", "e", "n">>
TableHeader == <<"S", "p", "e", "c", "i", "e", "s", " ", "N", "a", "m", "e">>

\* lines 150-162: the 0-based start line
FindStart(lines) ==
  LET named == {k \in DOMAIN lines : Strip(lines[k]) = FirstName}
      headed == {k \in DOMAIN lines : StartsWith(Strip(lines[k]), TableHeader)}
      First(S) == CHOOSE k \in S : \A j \in S : k <= j
  IN  IF named # {} THEN First(named) - 1
      ELSE IF headed # {} THEN First(headed)
      ELSE 0

FileLine ==
  [ Blank |-> <<" ">>,
    Name |-> <<"D", "i">>,
    First |-> <<" ", "D", "i", "h", "y", "d", "r", "o", "g", "e", "n">>,
    Header |-> <<"S", "p", "e", "c", "i", "e", "s", " ", "N", "a", "m", "e", " ", "x">>,
    Data |-> <<"H", "2", " ", "0", ".", "0", " ">>,
    Cas |-> <<" ", "2", " ", "5", "0", "-", "0", "0", "-", "0", "*", "3">>,
    Star |-> <<"a", "b", "*", "3">> ]

\* documents of at most MaxLines lines
FileDocs == UNION {[1..n -> Range(FileLine)] : n \in 0..MaxLines}

FileInit ==
  /\ pc = "file_start"
  /\ \E doc \in FileDocs :
       md = [lines |-> doc, i |-> 0, species_name_line |-> <<>>,
             data_lines |-> <<>>, cas_found |-> FALSE,
             at |-> 0, data_at |-> <<>>, groups |-> <<>>]
  /\ records = <<>>
  /\ rt = Idle /\ pdf = Idle /\ scr = Idle

\* lines 150-164
FileStart ==
  /\ pc = "file_start"
  /\ md' = [md EXCEPT !.i = FindStart(md.lines)]
  /\ pc' = "file_outer"
  /\ UNCHANGED <<records, rt, pdf, scr>>

\* lines 167-168: one blank line skipped
FileSkipBlank ==
  /\ pc = "file_outer"
  /\ md.i < Len(md.lines) /\ Strip(md.lines[md.i + 1]) = <<>>
  /\ md' = [md EXCEPT !.i = @ + 1]
  /\ UNCHANGED <<pc, records, rt, pdf, scr>>

\* lines 172-179
FileName ==
  /\ pc = "file_outer"
  /\ md.i < Len(md.lines) /\ Strip(md.lines[md.i + 1]) # <<>>
  /\ md' = [md EXCEPT !.species_name_line = Strip(md.lines[md.i + 1]),
                       !.i = @ + 1, !.data_lines = <<>>, !.cas_found = FALSE,
                       !.at = md.i, !.data_at = <<>>]
  /\ pc' = "file_inner"
  /\ UNCHANGED <<records, rt, pdf, scr>>

\* lines 165 and 169-170: no line is left
FileEnd ==
  /\ pc = "file_outer"
  /\ md.i >= Len(md.lines)
  /\ pc' = "file_done"
  /\ UNCHANGED <<md, records, rt, pdf, scr>>

\* line 181: next_line
NextLine(f) == Strip(f.lines[f.i + 1])
\* line 195: data_text
DataText(f) == JoinSp(f.data_lines)
\* line 196: rec
GroupRecord(f) == ParseRecord(f.species_name_line, DataText(f))

\* lines 180-193: one iteration of the inner loop
FileDataLine ==
  /\ pc = "file_inner"
  /\ md.i < Len(md.lines)
  /\ IF NextLine(md) = <<>>
     THEN md' = [md EXCEPT !.i = @ + 1] /\ pc' = pc
     ELSE /\ md' = [md EXCEPT !.data_lines = Append(@, NextLine(md)),
                              !.data_at = Append(@, md.i),
                              !.i = @ + 1,
                              !.cas_found = HasCas(NextLine(md))]
          /\ pc' = IF HasCas(NextLine(md)) THEN "file_emit" ELSE pc
  /\ UNCHANGED <<records, rt, pdf, scr>>

\* a scan that fails when the document ends before a CAS*relative line
FileDataEnd_Raises ==
  /\ pc = "file_inner"
  /\ md.i >= Len(md.lines)
  /\ pc' = "file_raised"
  /\ UNCHANGED <<md, records, rt, pdf, scr>>

\* line 180: the document ended inside the group
FileDataEnd ==
  /\ pc = "file_inner"
  /\ md.i >= Len(md.lines)
  /\ pc' = "file_emit"
  /\ UNCHANGED <<md, records, rt, pdf, scr>>

\* lines 195-202
FileEmit ==
  /\ pc = "file_emit"
  /\ records' = IF GroupRecord(md) # None
                THEN Append(records, Sanitize(GroupRecord(md))) ELSE records
  /\ md' = [md EXCEPT !.groups =
              Append(@, [name |-> md.at, data |-> md.data_at,
                         text |-> DataText(md), emitted |-> GroupRecord(md) # None])]
  /\ pc' = "file_outer"
  /\ UNCHANGED <<rt, pdf, scr>>

FileNext ==
  \/ FileStart \/ FileSkipBlank \/ FileName \/ FileEnd
  \/ FileDataLine \/ FileDataEnd \/ FileEmit

SpecFile == FileInit /\ [][FileNext]_vars

\* the inner loop has a line to read
FileHasDataLine == pc = "file_inner" /\ md.i < Len(md.lines)

\* the scan is a sequential program: it takes a step whenever it can.  For
\* FileDataLine and FileEmit the weak fairness is written out,
\* WF_vars(A) being []<>(~ENABLED <<A>>_vars) \/ []<><<A>>_vars, with their
\* enabling conditions FileHasDataLine and pc = "file_emit".
SpecFileLive ==
  /\ SpecFile
  /\ WF_vars(FileStart \/ FileSkipBlank \/ FileName \/ FileEnd \/ FileDataEnd)
  /\ ([]<>(~FileHasDataLine) \/ []<><<FileDataLine>>_vars)
  /\ ([]<>(pc # "file_emit") \/ []<><<FileEmit>>_vars)

(***************************************************************************)
(* parse_thermo_pdf_to_json.py                                             *)
(*                                                                         *)
(* A table is a sequence of rows, a row a sequence of cells.  A cell is    *)
(* text (Str), None, or a non-text object (IntV): the code guards for the  *)
(* last two with str(...), "is None" and "or ''".                          *)
(***************************************************************************)
RECURSIVE NatToStr(_)
NatToStr(n) ==
  IF n < 10 THEN <<DigitSeq[n + 1]>>
  ELSE NatToStr(n \div 10) \o <<DigitSeq[(n % 10) + 1]>>
\* str(cell)
PyStr(v) ==
  IF v.t = "str" THEN v.s
  ELSE IF v.t = "int" THEN (IF v.i < 0 THEN <<"-">> \o NatToStr(0 - v.i) ELSE NatToStr(v.i))
  ELSE <<"N", "o", "n", "e">>
\* bool(cell)
Truthy(v) ==
  IF v.t = "str" THEN v.s # <<>>
  ELSE IF v.t = "int" THEN v.i # 0
  ELSE IF v.t = "float" THEN v.m # 0
  ELSE FALSE

IsNumericChar(c) == IsDigit(c) \/ c \in {"+", "-", ".", "E", "e"}
IsNotComma(c) == c # ","

\* _safe_float (PDF): strip, drop commas, drop every non-numeric character
PdfSafeFloat(s) ==
  IF s = None THEN None
  ELSE LET t == Strip(PyStr(s))
           kept == SelectSeq(SelectSeq(t, IsNotComma), IsNumericChar)
       IN  IF t = <<>> THEN None
           ELSE IF IsFloatLiteral(kept) THEN FloatOf(kept) ELSE None

\* re.sub(r"\s+", " ", s)
RECURSIVE CollapseWs(_)
CollapseWs(s) ==
  IF s = <<>> THEN <<>>
  ELSE IF IsSpace(s[1]) THEN <<" ">> \o CollapseWs(LStrip(s))
  ELSE <<s[1]>> \o CollapseWs(Tail(s))

\* (x or ""): a falsy x (None, "", 0.0) becomes ""
OrEmpty(x) == IF Truthy(x) THEN x ELSE EmptyStr

\* _normalize_header
NormalizeHeader(cell) == CollapseWs(Lower(Strip(OrEmpty(cell).s)))

Keyword ==
  [ Formula |-> <<"f", "o", "r", "m", "u", "l", "a">>,
    Species |-> <<"s", "p", "e", "c", "i", "e", "s">>,
    Name |-> <<"n", "a", "m", "e">>,
    StateOfMatter |-> <<"s", "t", "a", "t", "e", " ", "o", "f", " ", "m", "a", "t", "t", "e", "r">>,
    State |-> <<"s", "t", "a", "t", "e">>,
    Enthalpy |-> <<"e", "n", "t", "h", "a", "l", "p", "y">>,
    Entropy |-> <<"e", "n", "t", "r", "o", "p", "y">>,
    Gibbs |-> <<"g", "i", "b", "b", "s">>,
    FreeEnergy |-> <<"f", "r", "e", "e", " ", "e", "n", "e", "r", "g", "y">>,
    Aq |-> <<"a", "q">> ]

\* lines 85-94: the tests of one loop iteration
IsFormulaHeader(h) == Contains(h, Keyword.Formula) \/ h = Keyword.Species \/ h = Keyword.Name
IsStateHeader(h) == Contains(h, Keyword.StateOfMatter) \/ h = Keyword.State \/ Contains(h, Keyword.State)
IsEnthalpyHeader(h) == Contains(h, Keyword.Enthalpy)
IsEntropyHeader(h) == Contains(h, Keyword.Entropy)
IsGibbsHeader(h) == Contains(h, Keyword.Gibbs) \/ Contains(h, Keyword.FreeEnergy)

NoCols == [formula |-> 0 - 1, state |-> 0 - 1, enthalpy |-> 0 - 1,
           entropy |-> 0 - 1, gibbs |-> 0 - 1]

\* the loop body with the "== -1" guards left out: the last match wins
FindColumnsStep_LastWins(norm, i, cols) ==
  LET h == norm[i + 1]
      Set(old, hit) == IF hit THEN i ELSE old
  IN  [formula |-> Set(cols.formula, IsFormulaHeader(h)),
       state |-> Set(cols.state, IsStateHeader(h)),
       enthalpy |-> Set(cols.enthalpy, IsEnthalpyHeader(h)),
       entropy |-> Set(cols.entropy, IsEntropyHeader(h)),
       gibbs |-> Set(cols.gibbs, IsGibbsHeader(h))]

\* lines 85-94: iteration i of the loop over the normalized header
FindColumnsStep(norm, i, cols) ==
  LET h == norm[i + 1]
      Set(old, hit) == IF old = 0 - 1 /\ hit THEN i ELSE old
  IN  [formula |-> Set(cols.formula, IsFormulaHeader(h)),
       state |-> Set(cols.state, IsStateHeader(h)),
       enthalpy |-> Set(cols.enthalpy, IsEnthalpyHeader(h)),
       entropy |-> Set(cols.entropy, IsEntropyHeader(h)),
       gibbs |-> Set(cols.gibbs, IsGibbsHeader(h))]

\* lines 84-94: iterations i, i+1, ... of the loop over the normalized header
RECURSIVE FindColumnsFrom(_, _, _)
FindColumnsFrom(norm, i, cols) ==
  IF i >= Len(norm) THEN cols
  ELSE FindColumnsFrom(norm, i + 1, FindColumnsStep(norm, i, cols))

\* _find_columns
FindColumns(header) ==
  FindColumnsFrom([i \in DOMAIN header |-> NormalizeHeader(header[i])], 0, NoCols)

Phase ==
  [ Gas |-> <<"g", "a", "s">>,
    Liquid |-> <<"l", "i", "q", "u", "i", "d">>,
    Solid |-> <<"s", "o", "l", "i", "d">>,
    Aqueous |-> <<"a", "q", "u", "e", "o", "u", "s">> ]

\* PhaseOf without .lower()
PhaseOf_CaseSensitive(state) ==
  LET st == Strip(OrEmpty(state).s)
  IN  IF st \in {<<"(", "g", ")">>, <<"g">>, Phase.Gas} THEN Phase.Gas
      ELSE IF st \in {<<"(", "l", ")">>, <<"l">>, Phase.Liquid} THEN Phase.Liquid
      ELSE IF st \in {<<"(", "s", ")">>, <<"s">>, Phase.Solid} THEN Phase.Solid
      ELSE IF Contains(st, Keyword.Aq) THEN Phase.Aqueous
      ELSE <<>>

\* lines 122-127, for a text or None state cell
PhaseOf(state) ==
  LET st == Lower(Strip(OrEmpty(state).s))
  IN  IF st \in {<<"(", "g", ")">>, <<"g">>, Phase.Gas} THEN Phase.Gas
      ELSE IF st \in {<<"(", "l", ")">>, <<"l">>, Phase.Liquid} THEN Phase.Liquid
      ELSE IF st \in {<<"(", "s", ")">>, <<"s">>, Phase.Solid} THEN Phase.Solid
      ELSE IF Contains(st, Keyword.Aq) THEN Phase.Aqueous
      ELSE <<>>

\* row[c] if c >= 0 and c < len(row) else ""
RowCell(row, c) == IF c >= 0 /\ c < Len(row) THEN row[c + 1] ELSE EmptyStr

\* line 108: not any(cell and str(cell).strip() for cell in row)
RowBlank(row) ==
  ~\E i \in DOMAIN row : Truthy(row[i]) /\ Strip(PyStr(row[i])) # <<>>

\* a row whose enthalpy cell is not a number raises as well
RowRaises_UnparseableNumber(cols, row) ==
  \/ LET state == RowCell(row, cols.state) IN Truthy(state) /\ state.t # "str"
  \/ LET formula == RowCell(row, cols.formula) IN Truthy(formula) /\ formula.t # "str"
  \/ PdfSafeFloat(RowCell(row, cols.enthalpy)) = None

\* lines 123 and 131: .strip() on a cell that is not text raises
RowRaises(cols, row) ==
  \/ LET state == RowCell(row, cols.state) IN Truthy(state) /\ state.t # "str"
  \/ LET formula == RowCell(row, cols.formula) IN Truthy(formula) /\ formula.t # "str"

\* v if v is not None else ""
OrSentinel(v) == IF v # None THEN v ELSE EmptyStr

\* lines 111-142
RowRecord(cols, row) ==
  [common_name |-> EmptyStr,
   structure |-> Str(Strip(OrEmpty(RowCell(row, cols.formula)).s)),
   enthalpy_of_formation_0K |-> EmptyStr,
   enthalpy_of_formation_298K |-> OrSentinel(PdfSafeFloat(RowCell(row, cols.enthalpy))),
   entropy_298K |-> OrSentinel(PdfSafeFloat(RowCell(row, cols.entropy))),
   gibbs_free_energy_298K |-> OrSentinel(PdfSafeFloat(RowCell(row, cols.gibbs))),
   phase |-> Str(PhaseOf(RowCell(row, cols.state))),
   uncertainty_value |-> EmptyStr,
   molecular_mass |-> EmptyStr,
   molecular_mass_uncertainty |-> EmptyStr,
   cas_rn |-> EmptyStr,
   relative_rank |-> EmptyStr]

\* RowRecords that skips a row shorter than the formula column
RowRecords_ShortRowSkipped(cols, row) ==
  IF RowBlank(row) THEN <<>>
  ELSE IF RowRaises(cols, row) \/ cols.formula >= Len(row) THEN <<>>
  ELSE <<RowRecord(cols, row)>>

\* lines 108-146: what one loop iteration appends
RowRecords(cols, row) ==
  IF RowBlank(row) THEN <<>>
  ELSE IF RowRaises(cols, row) THEN <<>>
  ELSE <<RowRecord(cols, row)>>

RECURSIVE RowsLoop(_, _)
RowsLoop(cols, rows) ==
  IF rows = <<>> THEN <<>>
  ELSE RowRecords(cols, rows[1]) \o RowsLoop(cols, Tail(rows))

\* _rows_to_records
RowsToRecords(table) ==
  IF table = <<>> THEN <<>>
  ELSE IF FindColumns(table[1]).formula = 0 - 1 THEN <<>>
  ELSE RowsLoop(FindColumns(table[1]), Tail(table))

(***************************************************************************)
(* _rows_to_records inputs                                                 *)
(***************************************************************************)
MaxRows == 3

Header ==
  [ Formula |-> Str(<<"F", "o", "r", "m", "u", "l", "a">>),
    State |-> Str(<<"S", "t", "a", "t", "e">>),
    Enthalpy |-> Str(<<"E", "n", "t", "h", "a", "l", "p", "y">>),
    Name |-> Str(<<" ", "N", "A", "M", "E", " ">>),
    Species |-> Str(<<"s", "p", "e", "c", "i", "e", "s">>),
    Nickname |-> Str(<<"n", "i", "c", "k", "n", "a", "m", "e">>),
    Matter |-> Str(<<"S", "t", "a", "t", "e", " ", " ", "o", "f", "\t", "M", "a", "t", "t", "e", "r">>),
    EnthalpyUp |-> Str(<<"E", "N", "T", "H", "A", "L", "P", "Y">>),
    EnthalpyPad |-> Str(<<" ", "e", "n", "t", "h", "a", "l", "p", "y", " ">>),
    Entropy |-> Str(<<"E", "n", "t", "r", "o", "p", "y">>),
    Gibbs |-> Str(<<"G", "I", "B", "B", "S">>),
    Free |-> Str(<<"F", "r", "e", "e", " ", "\t", "E", "n", "e", "r", "g", "y">>),
    Other |-> Str(<<"x">>),
    Blank |-> Str(<<" ">>) ]
RowHeaders ==
  { <<Header.Formula, Header.State, Header.Enthalpy>>,
    <<Header.State, Header.Name>>,
    <<Header.Formula, Header.Enthalpy>>,
    <<Header.State, Header.Enthalpy>> }

Cell ==
  [ H2 |-> Str(<<"H", "2">>),
    CO2 |-> Str(<<" ", "C", "O", "2">>),
    Zero |-> Str(<<"0", ".", "0">>),
    Neg |-> Str(<<"-", "1", ".", "5", " ", "k", "J">>),
    One |-> Str(<<"1">>),
    NA |-> Str(<<"n", "/", "a">>),
    Dashes |-> Str(<<"-", "-">>),
    Exp |-> Str(<<"s", "e", "e">>),
    Dots |-> Str(<<"1", ".", "2", ".", "3">>),
    Thousand |-> Str(<<"1", ",", "0", "0", "0", ".", "5">>) ]
StateCell ==
  [ G1 |-> Str(<<"(", "g", ")">>),
    G2 |-> Str(<<"G">>),
    G3 |-> Str(<<"g", "a", "s">>),
    G4 |-> Str(<<" ", "G", "a", "s", " ">>),
    L1 |-> Str(<<"(", "l", ")">>),
    L2 |-> Str(<<"L">>),
    L3 |-> Str(<<"l", "i", "q", "u", "i", "d">>),
    S1 |-> Str(<<"(", "s", ")">>),
    S2 |-> Str(<<"s">>),
    S3 |-> Str(<<"S", "o", "l", "i", "d">>),
    A1 |-> Str(<<"a", "q">>),
    A2 |-> Str(<<"(", "A", "Q", ")">>),
    A3 |-> Str(<<"a", "q", "u", "e", "o", "u", "s", " ", "s", "o", "l", "u", "t", "i", "o", "n">>),
    A4 |-> Str(<<"g", "a", "s", " ", "a", "q">>),
    X1 |-> Str(<<"g", "a", "s", "e", "o", "u", "s">>),
    X2 |-> Str(<<"x">>),
    X3 |-> Str(<<"(", "g">>) ]
StateCells ==
  Range(StateCell) \cup {EmptyStr, None, IntV(0)}

SampleRow ==
  [ Good |-> <<Cell.H2, StateCell.G1, Cell.Zero>>,
    Good2 |-> <<Cell.CO2, StateCell.A1, Cell.Neg>>,
    Short |-> <<Cell.CO2>>,
    ShortState |-> <<StateCell.L2>>,
    Empty |-> <<>>,
    Blank |-> <<EmptyStr, Str(<<" ">>), None>>,
    RaiseFormula |-> <<IntV(5), StateCell.G2, Cell.One>>,
    RaiseState |-> <<Cell.H2, IntV(7), Cell.One>>,
    IntNumber |-> <<Cell.H2, StateCell.S2, IntV(3)>> ]

\* cells of a numeric column
NumCells ==
  {Cell.NA, Cell.Dashes, Cell.Exp, Cell.Dots, Cell.Thousand, Cell.Neg, None, EmptyStr, IntV(3)}

\* one data row with every state cell, one with every numeric cell, and up to
\* MaxRows rows of Range(SampleRow)
RowTables ==
  {<<>>}
  \cup {<<h, <<Cell.H2, st, Cell.Zero>> >> : h \in RowHeaders, st \in StateCells}
  \cup {<<h, <<Cell.H2, StateCell.G1, num>> >> : h \in RowHeaders, num \in NumCells}
  \cup {<<h>> \o rows : h \in RowHeaders,
                        rows \in UNION {[1..n -> Range(SampleRow)] : n \in 0..MaxRows}}

(***************************************************************************)
(* _rows_to_records, one loop iteration per step.  r counts the data rows  *)
(* handled; src[k] is the data row (1-based) that records[k] came from.    *)
(***************************************************************************)
RowsInit ==
  /\ pc = "rows_header"
  /\ \E t \in RowTables :
       rt = [table |-> t, cols |-> NoCols, r |-> 0, records |-> <<>>, src |-> <<>>]
  /\ md = Idle /\ records = <<>> /\ pdf = Idle /\ scr = Idle

\* lines 99-106
RowsHeader ==
  /\ pc = "rows_header"
  /\ IF rt.table = <<>> THEN pc' = "rows_done" /\ rt' = rt
     ELSE /\ rt' = [rt EXCEPT !.cols = FindColumns(rt.table[1])]
          /\ pc' = IF FindColumns(rt.table[1]).formula = 0 - 1
                   THEN "rows_done" ELSE "rows_loop"
  /\ UNCHANGED <<md, records, pdf, scr>>

\* lines 107-146
RowsIter ==
  /\ pc = "rows_loop"
  /\ rt.r < Len(rt.table) - 1
  /\ LET new == RowRecords(rt.cols, rt.table[rt.r + 2])
     IN  rt' = [rt EXCEPT !.records = @ \o new,
                          !.src = @ \o [i \in DOMAIN new |-> rt.r + 1],
                          !.r = @ + 1]
  /\ UNCHANGED <<pc, md, records, pdf, scr>>

\* line 147
RowsReturn ==
  /\ pc = "rows_loop"
  /\ rt.r = Len(rt.table) - 1
  /\ pc' = "rows_done"
  /\ UNCHANGED <<md, records, rt, pdf, scr>>

RowsNext == RowsHeader \/ RowsIter \/ RowsReturn

SpecRows == RowsInit /\ [][RowsNext]_vars

(***************************************************************************)
(* parse_pdf_to_json: the text scrape of one page (lines 170-194)          *)
(***************************************************************************)
\* text.splitlines(), for text whose only line break is "\n"
RECURSIVE SplitLines(_, _, _)
SplitLines(s, cur, acc) ==
  IF s = <<>> THEN (IF cur = <<>> THEN acc ELSE Append(acc, cur))
  ELSE IF s[1] = "\n" THEN SplitLines(Tail(s), <<>>, Append(acc, cur))
  ELSE SplitLines(Tail(s), Append(cur, s[1]), acc)

\* line 171
NonBlankLines(text) ==
  LET NonBlank(ln) == Strip(ln) # <<>>
  IN  SelectSeq(SplitLines(text, <<>>, <<>>), NonBlank)

\* re.split(r"\s{2,}", s)
RECURSIVE Split2(_, _, _)
Split2(s, cur, acc) ==
  IF s = <<>> THEN Append(acc, cur)
  ELSE IF Len(s) >= 2 /\ IsSpace(s[1]) /\ IsSpace(s[2])
       THEN Split2(LStrip(s), <<>>, Append(acc, cur))
       ELSE Split2(Tail(s), Append(cur, s[1]), acc)

\* line 174
LineParts(ln) == Split2(Strip(ln), <<>>, <<>>)
\* line 178
LineNums(parts) ==
  LET Numeric(p) == PdfSafeFloat(Str(p)) # None
  IN  SelectSeq(Tail(parts), Numeric)

\* line 185
ScrapeEnthalpy(nums) == OrEmpty(PdfSafeFloat(Str(nums[1])))

\* lines 180-193
ScrapeRecord(parts, nums) ==
  [common_name |-> EmptyStr,
   structure |-> Str(parts[1]),
   phase |-> EmptyStr,
   enthalpy_of_formation_0K |-> EmptyStr,
   enthalpy_of_formation_298K |-> ScrapeEnthalpy(nums),
   entropy_298K |-> IF Len(nums) > 1 THEN PdfSafeFloat(Str(nums[2])) ELSE EmptyStr,
   gibbs_free_energy_298K |-> IF Len(nums) > 2 THEN PdfSafeFloat(Str(nums[3])) ELSE EmptyStr,
   uncertainty_value |-> EmptyStr,
   molecular_mass |-> EmptyStr,
   molecular_mass_uncertainty |-> EmptyStr,
   cas_rn |-> EmptyStr,
   relative_rank |-> EmptyStr]

\* lines 174-194: what one line appends
ScrapeLine(ln) ==
  LET parts == LineParts(ln)
  IN  IF Len(parts) < 3 THEN <<>>
      ELSE IF Len(LineNums(parts)) >= 1 THEN <<ScrapeRecord(parts, LineNums(parts))>>
      ELSE <<>>

RECURSIVE ScrapeLines(_)
ScrapeLines(lines) ==
  IF lines = <<>> THEN <<>> ELSE ScrapeLine(lines[1]) \o ScrapeLines(Tail(lines))

\* lines 170-194: what one page appends; extract_text() may give None
ScrapePage(text) == ScrapeLines(NonBlankLines(OrEmpty(text).s))

(***************************************************************************)
(* _find_columns, one header cell per step.  rt holds its locals.          *)
(***************************************************************************)
MaxCols == 3

\* header rows of at most MaxCols cells; a cell is text or None
HeaderRows == UNION {[1..n -> Range(Header) \cup {None}] : n \in 0..MaxCols}

ColsInit ==
  /\ pc = "cols_normalize"
  /\ \E h \in HeaderRows : rt = [header |-> h, norm |-> <<>>, i |-> 0, cols |-> NoCols]
  /\ md = Idle /\ records = <<>> /\ pdf = Idle /\ scr = Idle

\* lines 82-83
ColsNormalize ==
  /\ pc = "cols_normalize"
  /\ rt' = [rt EXCEPT !.norm = [k \in DOMAIN rt.header |-> NormalizeHeader(rt.header[k])]]
  /\ pc' = "cols_loop"
  /\ UNCHANGED <<md, records, pdf, scr>>

\* lines 84-94
ColsIter ==
  /\ pc = "cols_loop"
  /\ rt.i < Len(rt.norm)
  /\ rt' = [rt EXCEPT !.cols = FindColumnsStep(rt.norm, rt.i, rt.cols), !.i = @ + 1]
  /\ UNCHANGED <<pc, md, records, pdf, scr>>

\* line 95
ColsReturn ==
  /\ pc = "cols_loop"
  /\ rt.i = Len(rt.norm)
  /\ pc' = "cols_done"
  /\ UNCHANGED <<md, records, rt, pdf, scr>>

ColsNext == ColsNormalize \/ ColsIter \/ ColsReturn

SpecCols == ColsInit /\ [][ColsNext]_vars

(***************************************************************************)
(* Both pipelines: either parse_record on a group of the markdown document *)
(* or _rows_to_records on a table runs.                                    *)
(***************************************************************************)
NumericInit == MdInit \/ RowsInit
NumericNext == MdNext \/ RowsNext
SpecNumeric == NumericInit /\ [][NumericNext]_vars

(***************************************************************************)
(* Page texts: segments joined by separators of one or more blanks         *)
(***************************************************************************)
MaxSegs == 4

Seg ==
  [ CO2 |-> <<"C", "O", "2">>,
    Zero |-> <<"0", ".", "0">>,
    Neg |-> <<"-", "1", ".", "5">>,
    Unit |-> <<"k", "J">> ]
SepVocab == {<<" ">>, <<" ", " ">>, <<" ", "\t", " ">>}

RECURSIVE LinesOf(_)
\* the lines of exactly n segments
LinesOf(n) ==
  IF n = 0 THEN {<<>>}
  ELSE IF n = 1 THEN Range(Seg)
  ELSE {l \o sep \o g : l \in LinesOf(n - 1), sep \in SepVocab, g \in Range(Seg)}
ScrapeLineSet == UNION {LinesOf(n) : n \in 0..MaxSegs}
SampleLine ==
  [ Zero |-> <<" ", " ", "C", "O", "2", " ", " ", "0", ".", "0", " ", " ", "-", "1", ".", "5", " ", " ">>,
    Blank |-> <<" ", " ">>,
    Full |-> <<"C", "O", "2", " ", " ", " ", "-", "1", ".", "5", " ", " ", "0", ".", "0", " ", " ", "1", ",", "0", "0", "0">>,
    Junk |-> <<"k", "J", " ", " ", "k", "J", " ", " ", "k", "J">> ]
ScrapeTexts ==
  ScrapeLineSet \cup Range(SampleLine)
  \cup {a \o <<"\n">> \o b : a \in Range(SampleLine), b \in Range(SampleLine)}
  \cup {a \o <<"\n", "\n">> \o b \o <<"\n">> : a \in Range(SampleLine), b \in Range(SampleLine)}

(***************************************************************************)
(* The scrape of one page text, one line per step.  k counts the lines     *)
(* handled; src[j] is the line (1-based) that out[j] came from.            *)
(***************************************************************************)
ScrapeInit ==
  /\ pc = "scrape_text"
  /\ \E t \in ScrapeTexts :
       scr = [text |-> Str(t), lines |-> <<>>, k |-> 0, out |-> <<>>, src |-> <<>>]
  /\ md = Idle /\ records = <<>> /\ rt = Idle /\ pdf = Idle

\* lines 170-171
ScrapeSplit ==
  /\ pc = "scrape_text"
  /\ scr' = [scr EXCEPT !.lines = NonBlankLines(OrEmpty(scr.text).s)]
  /\ pc' = "scrape_lines"
  /\ UNCHANGED <<md, records, rt, pdf>>

\* lines 173-194
ScrapeIter ==
  /\ pc = "scrape_lines"
  /\ scr.k < Len(scr.lines)
  /\ LET new == ScrapeLine(scr.lines[scr.k + 1])
     IN  scr' = [scr EXCEPT !.out = @ \o new,
                            !.src = @ \o [i \in DOMAIN new |-> scr.k + 1],
                            !.k = @ + 1]
  /\ UNCHANGED <<pc, md, records, rt, pdf>>

\* the end of the loop of line 173
ScrapeEnd ==
  /\ pc = "scrape_lines"
  /\ scr.k = Len(scr.lines)
  /\ pc' = "scrape_done"
  /\ UNCHANGED <<md, records, rt, pdf, scr>>

ScrapeNext == ScrapeSplit \/ ScrapeIter \/ ScrapeEnd

SpecScrape == ScrapeInit /\ [][ScrapeNext]_vars

(***************************************************************************)
(* parse_pdf_to_json.  The document decides whether camelot and pdfplumber *)
(* import, whether pdfplumber.open succeeds and how many pages it has;     *)
(* what each extraction call returns or throws is chosen when it is made.  *)
(*                                                                         *)
(* History fields of pdf: tried, the kinds of extraction call made;         *)
(* origin[k], where all_records[k] came from; found, whether any call      *)
(* returned a table or a page text; threw, whether any call threw; gave,   *)
(* the kinds of call that returned a non-empty list of tables; thrown,     *)
(* the kinds of call that threw.                                           *)
(***************************************************************************)
MaxPages == 2
MaxTables == 1
NumStrategies == 3

SampleTable ==
  [ Good |-> << <<Header.Formula, Header.State, Header.Enthalpy>>, SampleRow.Good >>,
    NoFormula |-> << <<Header.State, Header.Enthalpy>>, <<StateCell.G1, Cell.Zero>> >>,
    HeaderOnly |-> << <<Header.Formula, Header.State, Header.Enthalpy>> >>,
    NoneCell |-> << <<Header.Formula, None, Header.Enthalpy>>, <<Cell.CO2, None, Cell.Neg>> >> ]
\* what camelot's t.df.values.tolist() gives
CamelotTables == {SampleTable.Good, SampleTable.NoFormula, SampleTable.HeaderOnly}
\* what page.extract_tables() gives: a table may be empty, a cell None
PlumberTables == {SampleTable.Good, SampleTable.NoFormula, SampleTable.NoneCell, <<>>}
ListsOf(S) == UNION {[1..n -> S] : n \in 0..MaxTables}

SampleText ==
  [ Row |-> <<"C", "O", "2", " ", " ", "-", "1", ".", "5", " ", " ", "2">>,
    Two |-> <<"k", "J", " ", "m", "o", "l", "\n", "C", "O", "2", " ", " ", "0", ".", "0", " ", " ", "1", " ", " ", "2", "\n">> ]
PageTexts == {None, EmptyStr, Str(SampleText.Row), Str(SampleText.Two)}

\* lines 75-76: the tables of a page, empty ones dropped, None cells as ""
NormalizeTable(tbl) ==
  [r \in DOMAIN tbl |->
     [c \in DOMAIN tbl[r] |-> IF tbl[r][c] # None THEN tbl[r][c] ELSE EmptyStr]]
NormalizePage(page_tables) ==
  LET NonEmpty(tbl) == tbl # <<>>
      kept == SelectSeq(page_tables, NonEmpty)
  IN  [i \in DOMAIN kept |-> NormalizeTable(kept[i])]

RECURSIVE AllRows(_)
\* lines 160-162
AllRows(tables) ==
  IF tables = <<>> THEN <<>>
  ELSE RowsToRecords(tables[1]) \o AllRows(Tail(tables))

Log(k, n) == [k |-> k, n |-> n]

\* the scrape attempted only when the cascade gave no table
ScrapeNeeded_NoTables(f) == f.tables = <<>>

\* line 165: not all_records
ScrapeNeeded(f) == f.all_records = <<>>

\* lines 44-45: camelot threw: return tables_cells
CamelotThrowPc == "pdf_log_camelot"
\* extract_tables threw and nothing caught it
PageThrowPc_Propagates == "raised"

\* lines 68-69: extract_tables threw: page_tables = []
PageThrowPc == "pdf_page_next"
\* lines 196-197: the scrape threw: log it
ScrapeThrowPc == "pdf_scrape_failed"

PdfInit ==
  /\ pc = "pdf_camelot"
  /\ \E c \in BOOLEAN, pl \in BOOLEAN, o \in BOOLEAN, n \in 0..MaxPages :
       pdf = [camelotOk |-> c, plumberOk |-> pl, openOk |-> o, nPages |-> n,
              tables |-> <<>>, logs |-> <<>>, all_records |-> <<>>,
              tables_cells |-> <<>>, page |-> 0, ts |-> 0, page_tables |-> <<>>,
              tried |-> {}, origin |-> <<>>, found |-> FALSE, threw |-> FALSE,
              gave |-> {}, thrown |-> {}]
  /\ md = Idle /\ records = <<>> /\ rt = Idle /\ scr = Idle

Others == <<md, records, rt, scr>>

\* lines 28-31
PdfCamelotImport ==
  /\ pc = "pdf_camelot"
  /\ pc' = IF pdf.camelotOk THEN "pdf_lattice" ELSE "pdf_log_camelot"
  /\ UNCHANGED <<pdf, Others>>

\* lines 36-39
PdfLattice ==
  /\ pc = "pdf_lattice"
  /\ \/ /\ pdf' = [pdf EXCEPT !.tried = @ \cup {"lattice"}, !.threw = TRUE,
                              !.thrown = @ \cup {"lattice"}]
        /\ pc' = CamelotThrowPc
     \/ \E got \in ListsOf(CamelotTables) :
          /\ pdf' = [pdf EXCEPT !.tried = @ \cup {"lattice"},
                                !.tables_cells = got,
                                !.found = @ \/ got # <<>>,
                                !.gave = @ \cup (IF got # <<>> THEN {"lattice"} ELSE {})]
          /\ pc' = IF got = <<>> THEN "pdf_stream" ELSE "pdf_log_camelot"
  /\ UNCHANGED Others

\* lines 41-43
PdfStream ==
  /\ pc = "pdf_stream"
  /\ \/ /\ pdf' = [pdf EXCEPT !.tried = @ \cup {"stream"}, !.threw = TRUE,
                              !.thrown = @ \cup {"stream"}]
        /\ pc' = CamelotThrowPc
     \/ \E got \in ListsOf(CamelotTables) :
          /\ pdf' = [pdf EXCEPT !.tried = @ \cup {"stream"},
                                !.tables_cells = got,
                                !.found = @ \/ got # <<>>,
                                !.gave = @ \cup (IF got # <<>> THEN {"stream"} ELSE {})]
          /\ pc' = "pdf_log_camelot"
  /\ UNCHANGED Others

\* lines 153-155
PdfLogCamelot ==
  /\ pc = "pdf_log_camelot"
  /\ pdf' = [pdf EXCEPT !.tables = pdf.tables_cells,
                        !.tables_cells = <<>>,
                        !.logs = Append(@, Log("camelot_tables", Len(pdf.tables_cells)))]
  /\ pc' = IF pdf.tables_cells = <<>> THEN "pdf_plumber" ELSE "pdf_rows"
  /\ UNCHANGED Others

\* lines 50-56: import, then open outside any try
PdfPlumberOpen ==
  /\ pc = "pdf_plumber"
  /\ pc' = IF ~pdf.plumberOk THEN "pdf_log_plumber"
           ELSE IF ~pdf.openOk THEN "raised"
           ELSE "pdf_pages"
  /\ UNCHANGED <<pdf, Others>>

\* line 57, and lines 58-64 for the next page
PdfNextPage ==
  /\ pc = "pdf_pages"
  /\ IF pdf.page < pdf.nPages
     THEN /\ pdf' = [pdf EXCEPT !.page = @ + 1, !.ts = 0, !.page_tables = <<>>]
          /\ pc' = "pdf_page"
     ELSE /\ pc' = "pdf_log_plumber"
          /\ pdf' = pdf
  /\ UNCHANGED Others

\* lines 65-69: one layout strategy on the current page
PdfPageStrategy ==
  /\ pc = "pdf_page"
  /\ \/ /\ pdf' = [pdf EXCEPT !.tried = @ \cup {"page"},
                              !.page_tables = <<>>, !.threw = TRUE,
                              !.thrown = @ \cup {"page"}]
        /\ pc' = PageThrowPc
     \/ \E got \in ListsOf(PlumberTables) :
          /\ pdf' = [pdf EXCEPT !.tried = @ \cup {"page"},
                                !.page_tables = got,
                                !.found = @ \/ got # <<>>,
                                !.gave = @ \cup (IF got # <<>> THEN {"page"} ELSE {})]
          /\ pc' = "pdf_page_next"
  /\ UNCHANGED Others

\* the strategy loop without the break of lines 70-71
PdfPageNext_NoBreak ==
  /\ pc = "pdf_page_next"
  /\ IF pdf.ts + 1 >= NumStrategies
     THEN pc' = "pdf_page_end" /\ pdf' = pdf
     ELSE pc' = "pdf_page" /\ pdf' = [pdf EXCEPT !.ts = @ + 1]
  /\ UNCHANGED Others

\* lines 65 and 70-71: break on a non-empty result, else the next strategy
PdfPageNext ==
  /\ pc = "pdf_page_next"
  /\ IF pdf.page_tables # <<>> \/ pdf.ts + 1 >= NumStrategies
     THEN pc' = "pdf_page_end" /\ pdf' = pdf
     ELSE pc' = "pdf_page" /\ pdf' = [pdf EXCEPT !.ts = @ + 1]
  /\ UNCHANGED Others

\* lines 72-76; ts and page_tables are not read again before line 58 resets them
PdfPageEnd ==
  /\ pc = "pdf_page_end"
  /\ pdf' = [pdf EXCEPT !.tables_cells = @ \o NormalizePage(pdf.page_tables),
                        !.ts = 0, !.page_tables = <<>>]
  /\ pc' = "pdf_pages"
  /\ UNCHANGED Others

\* lines 156-157
PdfLogPlumber ==
  /\ pc = "pdf_log_plumber"
  /\ pdf' = [pdf EXCEPT !.tables = pdf.tables_cells,
                        !.logs = Append(@, Log("pdfplumber_tables", Len(pdf.tables_cells)))]
  /\ pc' = "pdf_rows"
  /\ UNCHANGED Others

\* lines 159-165
PdfRows ==
  /\ pc = "pdf_rows"
  /\ LET recs == AllRows(pdf.tables)
         f == [pdf EXCEPT !.all_records = recs,
                          !.origin = [i \in DOMAIN recs |-> "table"],
                          !.logs = Append(@, Log("records_after_tables", Len(recs)))]
     IN  /\ pdf' = f
         /\ pc' = IF ScrapeNeeded(f) THEN "pdf_scrape" ELSE "returned"
  /\ UNCHANGED Others

\* lines 166-168: inside the try
PdfScrapeOpen ==
  /\ pc = "pdf_scrape"
  /\ pdf' = [pdf EXCEPT !.tried = @ \cup {"text"}, !.page = 0,
                        !.threw = @ \/ ~(pdf.plumberOk /\ pdf.openOk),
                        !.thrown = @ \cup (IF pdf.plumberOk /\ pdf.openOk
                                           THEN {} ELSE {"text"})]
  /\ pc' = IF pdf.plumberOk /\ pdf.openOk THEN "pdf_scrape_pages" ELSE ScrapeThrowPc
  /\ UNCHANGED Others

\* lines 169-194: one page
PdfScrapePage ==
  /\ pc = "pdf_scrape_pages"
  /\ pdf.page < pdf.nPages
  /\ \/ /\ pdf' = [pdf EXCEPT !.page = @ + 1, !.threw = TRUE,
                              !.thrown = @ \cup {"text"}]
        /\ pc' = ScrapeThrowPc
     \/ \E text \in PageTexts :
          LET recs == ScrapePage(text)
          IN  /\ pdf' = [pdf EXCEPT !.page = @ + 1,
                                    !.all_records = @ \o recs,
                                    !.origin = @ \o [i \in DOMAIN recs |-> "text"],
                                    !.found = @ \/ Truthy(text)]
              /\ pc' = pc
  /\ UNCHANGED Others

\* line 195
PdfScrapeLog ==
  /\ pc = "pdf_scrape_pages"
  /\ pdf.page = pdf.nPages
  /\ pdf' = [pdf EXCEPT !.logs =
               Append(@, Log("records_after_text_scrape", Len(pdf.all_records)))]
  /\ pc' = "returned"
  /\ UNCHANGED Others

\* lines 196-197
PdfScrapeFailed ==
  /\ pc = "pdf_scrape_failed"
  /\ pdf' = [pdf EXCEPT !.logs = Append(@, Log("text_scrape_failed", 0))]
  /\ pc' = "returned"
  /\ UNCHANGED Others

PdfNext ==
  \/ PdfCamelotImport \/ PdfLattice \/ PdfStream \/ PdfLogCamelot
  \/ PdfPlumberOpen \/ PdfNextPage \/ PdfPageStrategy \/ PdfPageNext
  \/ PdfPageEnd \/ PdfLogPlumber \/ PdfRows
  \/ PdfScrapeOpen \/ PdfScrapePage \/ PdfScrapeLog \/ PdfScrapeFailed

SpecPdf == PdfInit /\ [][PdfNext]_vars

(***************************************************************************)
(* Markdown pipeline: properties                                           *)
(***************************************************************************)
MdDone == pc = "done" /\ md.rec # None
\* the record parse_file emitted for the decoded group
MdOut == records[Len(records)]
\* token k of the stream, 1-based
T(k) == md.tokens[k]
IsNum(tok) == MdSafeFloat(tok) # None

\* a token CAS*integer: a CAS number, '*', decimal digits
StarPrefix(tok) == SubSeq(tok, 1, FirstIndex(tok, "*") - 1)
StarSuffix(tok) == SubSeq(tok, FirstIndex(tok, "*") + 1, Len(tok))
IsCasStarInt(tok) ==
  /\ HasChar(tok, "*")
  /\ MatchesCas(StarPrefix(tok))
  /\ StarSuffix(tok) # <<>> /\ AllDigits(StarSuffix(tok))

\* [structure, number, number, '±', number, letters/mol, number, CAS*integer]
FullShape ==
  /\ Len(md.tokens) = 8
  /\ ~IsNum(T(1)) /\ IsNum(T(2)) /\ IsNum(T(3))
  /\ T(4) = <<Glyph>> /\ IsNum(T(5))
  /\ MatchesUnits(T(6)) /\ IsNum(T(7)) /\ IsCasStarInt(T(8))

\* C6: a token stream of the full shape decodes slot by slot: structure is
\* token 0, enthalpy_of_formation_0K token 1, enthalpy_of_formation_298K
\* token 2, uncertainty_value the number after the glyph, molecular_mass the
\* number after the unit, cas_rn the CAS prefix and relative_rank the integer
\* after '*'.
C6_FullShapeDecodes ==
  (MdDone /\ FullShape) =>
    /\ MdOut.structure = Str(T(1))
    /\ MdOut.enthalpy_of_formation_0K = FloatOf(T(2))
    /\ MdOut.enthalpy_of_formation_298K = FloatOf(T(3))
    /\ MdOut.uncertainty_value = FloatOf(T(5))
    /\ MdOut.molecular_mass = FloatOf(T(7))
    /\ MdOut.molecular_mass_uncertainty = EmptyStr
    /\ MdOut.cas_rn = Str(StarPrefix(T(8)))
    /\ MdOut.relative_rank = IntV(DigitsToInt(StarSuffix(T(8))))

C6_Witness ==
  MdDone /\ FullShape /\ MdOut.relative_rank = IntV(3)
  /\ MdOut.enthalpy_of_formation_0K # MdOut.enthalpy_of_formation_298K

\* the cursor before and after the uncertainty slot (0-based), once decoded
UncAt == md.hist[3]
UncEnd == md.hist[4]
UnitsEnd == md.hist[5]
ExactInSlot ==
  MdDone /\ UncAt < Len(md.tokens) /\ Lower(T(UncAt + 1)) = ExactWord

\* C7 as stated: after an "exact" uncertainty token (one token consumed, kind
\* exact, no value) the units and mass slots still decode: a units token that
\* follows is consumed as units and the token after it is the molecular mass;
\* otherwise the token that follows is the molecular mass.
C7_ExactThenUnitsAndMass ==
  ExactInSlot =>
    /\ md.uncertainty_kind = Str(ExactWord)
    /\ MdOut.uncertainty_value = EmptyStr
    /\ UncEnd = UncAt + 1
    /\ LET m == IF UncEnd < Len(md.tokens) /\ MatchesUnits(T(UncEnd + 1))
                THEN UncEnd + 1 ELSE UncEnd
       IN  m < Len(md.tokens) =>
             MdOut.molecular_mass = Sanitize([v |-> MdSafeFloat(T(m + 1))]).v

\* C7 amended: after an "exact" uncertainty token (one token consumed, kind
\* exact, no value) the units slot is not attempted, and the token right
\* after "exact" is consumed as the molecular mass: its value when it is
\* numeric, absent otherwise (a units token included).
C7_ExactSkipsUnits ==
  ExactInSlot =>
    /\ md.uncertainty_kind = Str(ExactWord)
    /\ MdOut.uncertainty_value = EmptyStr
    /\ UncEnd = UncAt + 1
    /\ UnitsEnd = UncEnd /\ md.units = None
    /\ UncEnd < Len(md.tokens) =>
         /\ MdOut.molecular_mass = Sanitize([v |-> MdSafeFloat(T(UncEnd + 1))]).v
         /\ md.hist[6] > UncEnd

C7_Witness ==
  /\ ExactInSlot
  /\ T(UncAt + 1) # ExactWord
  /\ UncEnd < Len(md.tokens) /\ MatchesUnits(T(UncEnd + 1))
  /\ MdOut.molecular_mass = EmptyStr

\* C8: the record's cas_rn and relative_rank classify the last token of the
\* stream: CAS*int gives the CAS prefix and the integer, a bare CAS number
\* gives the token and no rank, any other token gives neither.
C8_LastTokenClassified ==
  MdDone =>
    LET last == LastTok(md)
    IN  IF IsCasStarInt(last)
        THEN /\ MdOut.cas_rn = Str(StarPrefix(last))
             /\ MdOut.relative_rank = IntV(DigitsToInt(StarSuffix(last)))
        ELSE IF MatchesCas(last)
        THEN MdOut.cas_rn = Str(last) /\ MdOut.relative_rank = EmptyStr
        ELSE MdOut.cas_rn = EmptyStr /\ MdOut.relative_rank = EmptyStr

\* C9: in every emitted record cas_rn is the empty-value sentinel or a
\* string matching the CAS pattern.
C9_CasRnMatchesPattern ==
  \A i \in DOMAIN records :
    records[i].cas_rn = EmptyStr
    \/ (records[i].cas_rn.t = "str" /\ MatchesCas(records[i].cas_rn.s))

(***************************************************************************)
(* _rows_to_records: properties                                            *)
(***************************************************************************)
RowsDone == pc = "rows_done"
RowsUsable == rt.table # <<>> /\ rt.cols.formula >= 0
DataRows == Tail(rt.table)
\* the ascending sequence of the members of a set of row numbers
RECURSIVE Ascending(_)
Ascending(S) ==
  IF S = {} THEN <<>>
  ELSE LET lo == CHOOSE x \in S : \A y \in S : x <= y
       IN  <<lo>> \o Ascending(S \ {lo})
ShortRow(i) == Len(DataRows[i]) < Len(rt.table[1])
RaisingRow(i) == ~RowBlank(DataRows[i]) /\ RowRaises(rt.cols, DataRows[i])
MalformedRows == {i \in DOMAIN DataRows : ShortRow(i) \/ RaisingRow(i)}

StateText(i) ==
  LET c == RowCell(DataRows[i], rt.cols.state)
  IN  IF c.t = "str" THEN Lower(Strip(c.s)) ELSE <<>>
PhaseNames == {Str(Phase.Gas), Str(Phase.Liquid), Str(Phase.Solid), Str(Phase.Aqueous), EmptyStr}

\* C10: the phase of every record is gas for a state cell (g), g or gas,
\* liquid for (l), l or liquid, solid for (s), s or solid (trimmed, any
\* letter case), aqueous for any other value containing aq, and absent for
\* everything else, an empty or missing state cell included.
C10_PhaseNormalized ==
  \A k \in DOMAIN rt.records :
    LET st == StateText(rt.src[k])
        ph == rt.records[k].phase
    IN  /\ ph \in PhaseNames
        /\ st \in {<<"(", "g", ")">>, <<"g">>, <<"g", "a", "s">>} => ph = Str(Phase.Gas)
        /\ st \in {<<"(", "l", ")">>, <<"l">>, <<"l", "i", "q", "u", "i", "d">>} => ph = Str(Phase.Liquid)
        /\ st \in {<<"(", "s", ")">>, <<"s">>, <<"s", "o", "l", "i", "d">>} => ph = Str(Phase.Solid)
        /\ (ph = Str(Phase.Aqueous)) <=>
             (Contains(st, Keyword.Aq)
              /\ st \notin {<<"(", "g", ")">>, <<"g">>, <<"g", "a", "s">>, <<"(", "l", ")">>, <<"l">>, <<"l", "i", "q", "u", "i", "d">>, <<"(", "s", ")">>, <<"s">>, <<"s", "o", "l", "i", "d">>})
        /\ (ph = EmptyStr) <=>
             (~Contains(st, Keyword.Aq)
              /\ st \notin {<<"(", "g", ")">>, <<"g">>, <<"g", "a", "s">>, <<"(", "l", ")">>, <<"l">>, <<"l", "i", "q", "u", "i", "d">>, <<"(", "s", ")">>, <<"s">>, <<"s", "o", "l", "i", "d">>})

C10_Witness ==
  /\ RowsDone /\ Len(rt.records) = 1
  /\ RowCell(DataRows[1], rt.cols.state) = StateCell.A3
  /\ rt.records[1].phase = Str(Phase.Aqueous)

(***************************************************************************)
(* Text scrape: properties                                                 *)
(***************************************************************************)
\* the line handled last, its segments and the numeric ones after the first
LastLine == scr.lines[scr.k]
LastParts == LineParts(LastLine)
LastNums == LineNums(LastParts)
LastEmitted == scr.src # <<>> /\ scr.src[Len(scr.src)] = scr.k
LastRecord == scr.out[Len(scr.out)]
NumValue(seg) == PdfSafeFloat(Str(seg))

\* C4: a non-blank line yields a record exactly when it has at least 3
\* segments and a numeric segment after the first; structure is segment 0
\* and enthalpy, entropy and gibbs are the values of the first, second and
\* third numeric segment, each absent only when there is no such segment.
C4_ScrapeRecord ==
  (pc = "scrape_lines" /\ scr.k >= 1) =>
    /\ LastEmitted <=> (Len(LastParts) >= 3 /\ Len(LastNums) >= 1)
    /\ LastEmitted =>
         /\ LastRecord.structure = Str(LastParts[1])
         /\ LastRecord.enthalpy_of_formation_298K = NumValue(LastNums[1])
         /\ LastRecord.entropy_298K =
              (IF Len(LastNums) >= 2 THEN NumValue(LastNums[2]) ELSE EmptyStr)
         /\ LastRecord.gibbs_free_energy_298K =
              (IF Len(LastNums) >= 3 THEN NumValue(LastNums[3]) ELSE EmptyStr)

(***************************************************************************)
(* parse_pdf_to_json: properties                                           *)
(***************************************************************************)
SchemaKeys ==
  {"common_name", "structure", "enthalpy_of_formation_0K",
   "enthalpy_of_formation_298K", "entropy_298K", "gibbs_free_energy_298K",
   "phase", "uncertainty_value", "molecular_mass",
   "molecular_mass_uncertainty", "cas_rn", "relative_rank"}
HasSchema(recs) == \A i \in DOMAIN recs : DOMAIN recs[i] = SchemaKeys

\* C1: every record emitted by either pipeline (table rows, text scrape,
\* markdown parse_file) has exactly the 12 schema keys.
C1_FixedSchemaKeys ==
  /\ HasSchema(records)
  /\ rt # Idle => HasSchema(rt.records)
  /\ scr # Idle => HasSchema(scr.out)
  /\ pdf # Idle => HasSchema(pdf.all_records)

Tried(what) == what \in pdf.tried

\* C2: when the document can be opened parse_pdf_to_json never raises,
\* whatever the extraction calls throw or return, and a run in which no call
\* gave a table or a page text returns an empty record list and a non-empty
\* diagnostic log.
C2_ReturnsNormally ==
  /\ pdf.openOk => pc # "raised"
  /\ (pc = "returned" /\ ~pdf.found) =>
       /\ pdf.all_records = <<>>
       /\ pdf.logs # <<>>
       /\ pdf.logs[1] = Log("camelot_tables", 0)

C2_Witness ==
  /\ pc = "returned" /\ pdf.openOk /\ ~pdf.found /\ pdf.threw
  /\ Tried("lattice") /\ Tried("page") /\ Tried("text")
  /\ pdf.logs[Len(pdf.logs)] = Log("text_scrape_failed", 0)

FromTable == \E k \in DOMAIN pdf.origin : pdf.origin[k] = "table"
FromText == \E k \in DOMAIN pdf.origin : pdf.origin[k] = "text"

\* C3 as stated: the text scrape is made exactly when the cascade yielded
\* zero tables, and with at least one table no record comes from text.
C3_ScrapeIffNoTables ==
  pc = "returned" =>
    /\ Tried("text") <=> pdf.tables = <<>>
    /\ pdf.tables # <<>> => ~FromText

\* C3 amended: the text scrape is attempted exactly when the tables of the
\* cascade gave no record (zero tables included), and when a table row gave
\* a record no record comes from text.
C3_ScrapeIffNoTableRecords ==
  pc = "returned" =>
    /\ Tried("text") <=> ~FromTable
    /\ FromTable => ~FromText
    /\ pdf.tables = <<>> => Tried("text")

C3_Witness ==
  /\ pc = "returned" /\ pdf.tables # <<>> /\ Tried("text") /\ FromText
  /\ pdf.all_records[1].structure = Str(Seg.CO2)

(***************************************************************************)
(* _find_columns                                                           *)
(***************************************************************************)
ColFields == {"formula", "state", "enthalpy", "entropy", "gibbs"}

\* the synonym rule of a field, on a normalized header cell
MatchesField(f, h) ==
  CASE f = "formula" -> IsFormulaHeader(h)
    [] f = "state" -> IsStateHeader(h)
    [] f = "enthalpy" -> IsEnthalpyHeader(h)
    [] f = "entropy" -> IsEntropyHeader(h)
    [] f = "gibbs" -> IsGibbsHeader(h)

\* the smallest 0-based index of a matching cell, -1 when there is none
FirstMatch(f, header) ==
  LET hits == {i \in 0..(Len(header) - 1) :
                 MatchesField(f, CollapseWs(Lower(Strip(OrEmpty(header[i + 1]).s))))}
  IN  IF hits = {} THEN 0 - 1 ELSE CHOOSE i \in hits : \A j \in hits : i <= j

UpperChar(c) ==
  IF c \in Range(LowerSeq)
  THEN UpperSeq[CHOOSE i \in DOMAIN LowerSeq : LowerSeq[i] = c]
  ELSE c

RECURSIVE Respace(_)
\* upper-case letters, every whitespace character widened to a run
Respace(s) ==
  IF s = <<>> THEN <<>>
  ELSE (IF IsSpace(s[1]) THEN <<"\t", " ">> ELSE <<UpperChar(s[1])>>) \o Respace(Tail(s))

\* the same header cell in another letter case and other whitespace
Disguise(cell) ==
  IF cell = None THEN None ELSE Str(<<" ">> \o Respace(cell.s) \o <<"\t">>)

ColsDone == pc = "cols_done"

\* C11: _find_columns gives every field the smallest index whose cell,
\* trimmed, whitespace-collapsed and lower-cased, matches the field's rule,
\* or no column (-1); the result does not depend on the letter case or on
\* the surrounding and internal whitespace of the header cells.
C11_FirstMatchingColumn ==
  ColsDone =>
    /\ \A f \in ColFields : rt.cols[f] = FirstMatch(f, rt.header)
    /\ FindColumns([k \in DOMAIN rt.header |-> Disguise(rt.header[k])]) = rt.cols

C11_Witness ==
  /\ ColsDone
  /\ rt.header = <<Header.Matter, Header.EnthalpyPad, Header.EnthalpyUp>>
  /\ rt.cols = [formula |-> 0 - 1, state |-> 0, enthalpy |-> 1,
                entropy |-> 0 - 1, gibbs |-> 0 - 1]

(***************************************************************************)
(* Unparseable numbers, both pipelines                                     *)
(***************************************************************************)
\* the markdown field decoded by the positional slot that started at cursor
\* a and ended at cursor b: the token at a, one token consumed
SlotDecoded(a, b, field) ==
  a < Len(md.tokens) =>
    /\ b >= a + 1
    /\ IsNum(T(a + 1)) => field = FloatOf(T(a + 1))
    /\ ~IsNum(T(a + 1)) => field = EmptyStr

TextOrFalsy(c) == ~Truthy(c) \/ c.t = "str"

\* C12: a token or cell that is not a number makes only its field absent.
\* parse_record returns a record for every non-empty token stream, and each
\* of its numeric slots (0 K enthalpy, 298 K enthalpy, mass) consumes its
\* token and gives the number or absent; _rows_to_records emits one record
\* for every non-blank row with text formula and state cells, whose numeric
\* fields are absent when their cells are not numbers and whose structure
\* is still the formula cell.
C12_UnparseableNumberIsAbsent ==
  /\ (pc = "md_emit" /\ md.tokens # <<>>) => md.rec # None
  /\ MdDone =>
       /\ SlotDecoded(md.hist[1], md.hist[2], MdOut.enthalpy_of_formation_0K)
       /\ SlotDecoded(md.hist[2], md.hist[3], MdOut.enthalpy_of_formation_298K)
       /\ SlotDecoded(md.hist[5], md.hist[6], MdOut.molecular_mass)
  /\ (RowsDone /\ RowsUsable) =>
       \A i \in DOMAIN DataRows :
         LET row == DataRows[i]
             from == {k \in DOMAIN rt.src : rt.src[k] = i}
         IN  (/\ ~RowBlank(row)
              /\ TextOrFalsy(RowCell(row, rt.cols.formula))
              /\ TextOrFalsy(RowCell(row, rt.cols.state))) =>
               /\ Cardinality(from) = 1
               /\ \A k \in from :
                    /\ rt.records[k].structure =
                         Str(Strip(OrEmpty(RowCell(row, rt.cols.formula)).s))
                    /\ PdfSafeFloat(RowCell(row, rt.cols.enthalpy)) = None =>
                         rt.records[k].enthalpy_of_formation_298K = EmptyStr

C12_Witness ==
  /\ RowsDone /\ RowsUsable /\ rt.cols.enthalpy = 2
  /\ DataRows = << <<Cell.H2, StateCell.G1, Cell.NA>> >>
  /\ Len(rt.records) = 1
  /\ rt.records[1].structure = Cell.H2
  /\ rt.records[1].enthalpy_of_formation_298K = EmptyStr

\* the markdown case of C12: a text token in the 298 K slot
C12_MdCase ==
  /\ MdDone /\ md.hist[2] < Len(md.tokens) /\ ~IsNum(T(md.hist[2] + 1))
  /\ MdOut.enthalpy_of_formation_298K = EmptyStr
  /\ MdOut.molecular_mass # EmptyStr

(***************************************************************************)
(* parse_pdf_to_json: the table cascade                                    *)
(***************************************************************************)
\* a call of this kind was made and returned, without throwing, no table
ReturnedNone(what) ==
  Tried(what) /\ what \notin pdf.gave /\ what \notin pdf.thrown

C14_ThrowFallsToNextStrategy ==
  (pc = "returned" /\ "lattice" \in pdf.thrown) => Tried("stream")

(***************************************************************************)
(* parse_file: properties                                                  *)
(***************************************************************************)
FileDone == pc = "file_done"
\* line k of the document (0-based), trimmed
FileText(k) == Strip(md.lines[k + 1])
\* the non-blank lines from the start line on, in document order
NonBlankFromStart ==
  Ascending({k \in FindStart(md.lines)..(Len(md.lines) - 1) : FileText(k) # <<>>})
\* line k holds a token CAS*integer
LineHasCasRel(k) ==
  \E n \in DOMAIN SplitWs(FileText(k), <<>>, <<>>) :
    IsCasStarInt(SplitWs(FileText(k), <<>>, <<>>)[n])

RECURSIVE GroupLines(_)
\* the lines of the groups, group after group: name line, then data lines
GroupLines(groups) ==
  IF groups = <<>> THEN <<>>
  ELSE <<groups[1].name>> \o groups[1].data \o GroupLines(Tail(groups))

RECURSIVE GroupRecords(_)
\* the records of the groups that have field data, group after group
GroupRecords(groups) ==
  IF groups = <<>> THEN <<>>
  ELSE (IF SplitWs(groups[1].text, <<>>, <<>>) # <<>>
        THEN <<Sanitize(ParseRecord(FileText(groups[1].name), groups[1].text))>>
        ELSE <<>>) \o GroupRecords(Tail(groups))

OpenGroup(g) == \A j \in DOMAIN g.data : ~LineHasCasRel(g.data[j])

C17_CasFromLastToken ==
  (MdDone /\ HasChar(LastTok(md), "*")) =>
    /\ md.rec.cas_rn = SplitCasAndRelative(LastTok(md))[1]
    /\ md.rec.relative_rank = SplitCasAndRelative(LastTok(md))[2]

\* the decoder's locals with the cursor placed on token k (0-based) and no
\* slot filled yet
CursorAt(k) == [MdFrame(md.line1, md.line2) EXCEPT !.tokens = md.tokens, !.idx = k]

\* C18: with the cursor on a glyph token, the enthalpy-uncertainty step and
\* the mass-uncertainty step advance the cursor equally and give the same
\* value or absence; and a record without molecular mass has no
\* molecular-mass uncertainty.
C18_MassUncertaintyLikeStep4 ==
  /\ \A k \in 0..(Len(md.tokens) - 1) :
       md.tokens[k + 1] = <<Glyph>> =>
         /\ MassUncertainty(CursorAt(k)).idx = UncertaintyStep(CursorAt(k)).idx
         /\ MassUncertainty(CursorAt(k)).molecular_mass_unc =
              UncertaintyStep(CursorAt(k)).uncertainty_value
  /\ (MdDone /\ md.rec.molecular_mass = None) =>
       md.rec.molecular_mass_uncertainty = None

\* the cursor after slot j of the decoder: 1 structure, 2 and 3 the
\* enthalpies, 4 uncertainty, 5 units, 6 molecular mass with its
\* uncertainty, 7 the CAS step
After(j) == md.hist[j]
\* the value an uncertainty slot takes from the tokens after cursor k
\* (0-based) when it has advanced to cursor e
ValueBetween(k, e) ==
  IF T(k + 1) = <<Glyph>> THEN (IF e = k + 2 THEN MdSafeFloat(T(k + 2)) ELSE None)
  ELSE MdSafeFloat(GluedNumber(T(k + 1)))

\* C20: the cursor of parse_record starts at 0, never decreases and never
\* exceeds the number of tokens; every field of the record is the value of
\* a token inside the cursor interval of its own slot, the intervals follow
\* one another, and cas_rn/relative_rank come from the last token only when
\* the cursor has stopped before it.
C20_CursorInvariant ==
  /\ [](pc = "md_tokenize" => md.idx = 0)
  /\ [][md'.idx >= md.idx]_vars
  /\ [](/\ md.idx <= Len(md.tokens)
        /\ \A j \in DOMAIN md.hist : After(j) <= Len(md.tokens)
        /\ \A j \in 1..(Len(md.hist) - 1) : After(j) <= After(j + 1)
        /\ md.hist # <<>> => md.hist[Len(md.hist)] = md.idx)
  /\ [](MdDone =>
         /\ md.structure # None => (After(1) = 1 /\ md.structure = Str(T(1)))
         /\ md.structure = None => After(1) = 0
         /\ md.dH0 # None =>
              (After(2) = After(1) + 1 /\ md.dH0 = MdSafeFloat(T(After(1) + 1)))
         /\ md.dH298 # None =>
              (After(3) = After(2) + 1 /\ md.dH298 = MdSafeFloat(T(After(2) + 1)))
         /\ md.uncertainty_value # None =>
              (After(4) > After(3)
               /\ md.uncertainty_value = ValueBetween(After(3), After(4)))
         /\ md.units # None =>
              (After(5) = After(4) + 1 /\ md.units = Str(T(After(4) + 1)))
         /\ md.molecular_mass # None =>
              (After(6) > After(5) /\ md.molecular_mass = MdSafeFloat(T(After(5) + 1)))
         /\ md.molecular_mass_unc # None =>
              (After(6) > After(5) + 1
               /\ md.molecular_mass_unc = ValueBetween(After(5) + 1, After(6)))
         /\ (md.cas # None \/ md.relative # None) =>
              (After(6) < Len(md.tokens)
               /\ <<md.cas, md.relative>> = SplitCasAndRelative(LastTok(md))))

C20_Witness ==
  /\ MdDone /\ Len(md.tokens) = 8
  /\ md.hist = <<1, 2, 3, 5, 6, 7, 7>>
  /\ md.cas # None /\ md.relative # None /\ md.molecular_mass # None

(***************************************************************************)
(* _tokenize_loose: properties                                             *)
(***************************************************************************)
TokDone == pc = "tok_done"
RECURSIVE Concat(_)
Concat(seqs) == IF seqs = <<>> THEN <<>> ELSE seqs[1] \o Concat(Tail(seqs))
\* text without its whitespace characters
Unspaced(text) == SelectSeq(text, LAMBDA c : ~IsSpace(c))

====
